---- MODULE Spec2Model ----
(***************************************************************************)
(* Model of orchestrator/collaboration.py: the collaborator-invite flow    *)
(* (invoke_auto_invite), the fork batch (invoke_auto_create_or_sync_fork   *)
(* with check_if_correct_fork, get_default_branch, delete_repository,      *)
(* sync_fork_with_upstream and create_new_fork) and the error-text         *)
(* classification these functions apply to failed remote operations.       *)
(* Strings are TLA+ strings; the remote API (run_gh_api) and the checklist *)
(* helpers live in orchestrator/helpers.py and are modelled by their       *)
(* contract.                                                               *)
(***************************************************************************)
EXTENDS Naturals, Sequences, FiniteSets, TLC

VARIABLES
    pc,                \* position of the running function
    token_cache,       \* the loaded TOKEN_CACHE_FILE: the usernames, one per token, in
                       \* insertion order; <<>> in the fork batch after its last read
    users_to_process,  \* invoke_auto_create_or_sync_fork: the keys, in dict order
    action,            \* the operating mode chosen at the prompt
    confirm,           \* the lower-cased answer to the confirmation prompt
    i,                 \* 1-based index of the account being processed
    success_count,
    failed_count,
    forked,            \* FORKED_REPOS_FILE, one identifier per line
    invited,           \* INVITED_USERS_FILE, one identifier per line
    users_to_invite,   \* invoke_auto_invite: the usernames to invite
    remote,            \* kind of the remote repository at each path ("unseen" until
                       \* the run first asks the remote about the path)
    calls,             \* result of each remote operation of the account last processed
    issued,            \* the kinds of request ever issued on each path
    stale_removed,     \* create_new_fork removed the checklist entry of the account
                       \* last processed
    flaky,             \* whether requests of this run can fail for transient reasons
    outcome,           \* what the batch did with each path's account: "-" nothing yet,
                       \* "excluded" (line 273), "success" or "failed" (the counter)
    elapsed,           \* create_new_fork: time.time() - start_time
    gap,               \* time slept since the last remote request
    invites,           \* number of invitation requests sent to each username
    run,               \* number of times the invite flow was started
    invite_result,     \* invoke_auto_invite: result of the last invitation request
    accepted,          \* ACCEPTED_USERS_FILE, one identifier per line
    accepted_users,    \* invoke_auto_accept: the lines read before the loop
    accepted_count,
    skipped_count,
    no_invite_count,
    accepts,           \* number of accept requests sent for each username
    op,                \* error-text classification: the operation kind
    text,              \* error-text classification: the error text
    verdict            \* error-text classification: the result

vars == <<pc, token_cache, users_to_process, action, confirm, i, success_count, failed_count,
          forked, invited, users_to_invite, remote, calls, issued,
          stale_removed, flaky, outcome, elapsed, gap, invites, run, invite_result, op,
          text, verdict, accepted, accepted_users, accepted_count, skipped_count,
          no_invite_count, accepts>>

(***************************************************************************)
(* Bounds of the model.                                                    *)
(***************************************************************************)
MaxAccounts == 2      \* entries of the token cache
MaxProbeTime == 2     \* longest duration of one existence probe of the poll
MaxRuns == 2          \* times the invite flow is started

(***************************************************************************)
(* Program constants.                                                      *)
(***************************************************************************)
timeout == 120
POLL_SLEEP == 5
DELETE_SLEEP == 5
ACCOUNT_SLEEP == 2

main_username == "main"
main_repo_name == "repo"
Collaborators == {"alice", "bob"}
Users == {main_username} \cup Collaborators

(***************************************************************************)
(* Strings: str.lower, str.strip, the `in` substring test, str.split.      *)
(***************************************************************************)
UpperChars == "ABCDEFGHIJKLMNOPQRSTUVWXYZ"
LowerChars == "abcdefghijklmnopqrstuvwxyz"
Whitespace == {" ", "\t", "\n"}

CharAt(s, k) == SubSeq(s, k, k)

LowerChar(c) ==
    IF \E k \in 1..26 : CharAt(UpperChars, k) = c
    THEN CharAt(LowerChars, CHOOSE k \in 1..26 : CharAt(UpperChars, k) = c)
    ELSE c

RECURSIVE Lower(_)
Lower(s) ==
    IF Len(s) = 0 THEN ""
    ELSE LowerChar(CharAt(s, 1)) \o Lower(SubSeq(s, 2, Len(s)))

RECURSIVE LStrip(_, _)
LStrip(s, cs) ==
    IF Len(s) > 0 /\ CharAt(s, 1) \in cs THEN LStrip(SubSeq(s, 2, Len(s)), cs) ELSE s

RECURSIVE RStrip(_, _)
RStrip(s, cs) ==
    IF Len(s) > 0 /\ CharAt(s, Len(s)) \in cs THEN RStrip(SubSeq(s, 1, Len(s) - 1), cs) ELSE s

StripChars(s, cs) == RStrip(LStrip(s, cs), cs)
Strip(s) == StripChars(s, Whitespace)

Contains(needle, hay) ==
    \E k \in 0..(Len(hay) - Len(needle)) : SubSeq(hay, k + 1, k + Len(needle)) = needle

\* s.split('/')[1]: the text between the first and the second '/'
SplitSecond(s) ==
    LET first == CHOOSE k \in 1..Len(s) :
                     CharAt(s, k) = "/" /\ \A j \in 1..(k - 1) : CharAt(s, j) # "/"
        rest == SubSeq(s, first + 1, Len(s))
        stops == {k \in 1..Len(rest) : CharAt(rest, k) = "/"}
    IN  IF stops = {} THEN rest
        ELSE SubSeq(rest, 1, (CHOOSE k \in stops : \A j \in stops : k <= j) - 1)

Range(seq) == {seq[k] : k \in 1..Len(seq)}

RECURSIVE SelectSeq2(_, _)
SelectSeq2(seq, keep) ==
    IF seq = <<>> THEN <<>>
    ELSE IF Head(seq) \in keep THEN <<Head(seq)>> \o SelectSeq2(Tail(seq), keep)
    ELSE SelectSeq2(Tail(seq), keep)

(***************************************************************************)
(* Error-text classification of a failed remote operation.                 *)
(***************************************************************************)
\* invoke_auto_invite: "already a collaborator" in result.get('error', '').lower()
InviteErrIsSuccess(error) == Contains("already a collaborator", Lower(error))

\* the creation classification without .lower()
CreateErrIsSuccessCaseSensitive(error) == Contains("forks must have unique names", error)

\* create_new_fork: 'forks must have unique names' in error_msg
CreateErrIsSuccess(error) == Contains("forks must have unique names", Lower(error))

\* the merge classification with the one phrase "already up-to-date"
SyncErrIsSuccessOnePhrase(error) == Contains("already up-to-date", Lower(error))

\* sync_fork_with_upstream: any(keyword in error_msg for keyword in [...])
SyncKeywords == {"up-to-date", "up to date", "already"}
SyncErrIsSuccess(error) == \E keyword \in SyncKeywords : Contains(keyword, Lower(error))

(***************************************************************************)
(* Paths, operation results and the remote API.                            *)
(***************************************************************************)
source_repo == main_username \o "/" \o main_repo_name
RepoPath(username, repo_name) == username \o "/" \o repo_name
Paths == {RepoPath(u, main_repo_name) : u \in Users}

Ops == {"parent", "exists", "delete", "create", "poll", "disable", "branch", "merge",
        "invitations", "accept"}

NoCall == [issued |-> FALSE, success |-> FALSE, output |-> "", error |-> "", arg |-> ""]
Sent(a) == [issued |-> TRUE, success |-> FALSE, output |-> "", error |-> "", arg |-> a]
Ok(out, a) == [issued |-> TRUE, success |-> TRUE, output |-> out, error |-> "", arg |-> a]
Fail(err, a) == [issued |-> TRUE, success |-> FALSE, output |-> "", error |-> err, arg |-> a]

ErrNet == "connection timed out"
ErrNotFound == "HTTP 404: Not Found"
ErrForbidden == "HTTP 403: Must have admin rights to Repository"
ErrUnique == "HTTP 422: Forks must have unique names"
ErrUpToDate == "This branch is already up-to-date"
ErrConflict == "HTTP 409: merge conflict"
ErrCollaborator == "HTTP 422: User is already a collaborator"

NoCalls == [o \in Ops |-> NoCall]

RepoKinds == {"none", "fork", "other"}
Exists(kind) == kind \in {"fork", "other", "upstream"}

\* what .parent.full_name prints for a repository of each kind
ParentOutput(kind) ==
    IF kind = "fork" THEN "Main/Repo\n" ELSE IF kind = "other" THEN "carol/repo\n" ELSE "null\n"

\* run_gh_api: the results the remote can give to operation o on a repository
\* path of this kind, each with the kind afterwards; a is the request's argument
RunGhApi(o, kind, a) ==
    LET same(rs) == {[res |-> r, after |-> kind] : r \in rs}
    IN  CASE o = "parent" ->
                 IF Exists(kind) THEN same({Ok(ParentOutput(kind), a), Fail(ErrNet, a)})
                 ELSE same({Fail(ErrNotFound, a)})
          [] o \in {"exists", "poll"} ->
                 IF Exists(kind) THEN same({Ok("{}", a), Fail(ErrNet, a)})
                 ELSE IF kind = "pending"
                 THEN {[res |-> Ok("{}", a), after |-> "fork"],
                       [res |-> Fail(ErrNotFound, a), after |-> kind]}
                 ELSE same({Fail(ErrNotFound, a)})
          [] o = "delete" ->
                 IF Exists(kind)
                 THEN {[res |-> Ok("", a), after |-> "none"],
                       [res |-> Fail(ErrForbidden, a), after |-> kind]}
                 ELSE same({Fail(ErrNotFound, a)})
          [] o = "create" ->
                 {[res |-> Ok("{}", a), after |-> IF kind = "none" THEN "pending" ELSE kind]}
                 \cup same({Fail(ErrUnique, a), Fail(ErrNet, a)})
          [] o = "disable" -> same({Ok("", a), Fail(ErrNotFound, a)})
          [] o = "branch" ->
                 IF Exists(kind) THEN same({Ok("master\n", a), Ok("", a), Fail(ErrNet, a)})
                 ELSE same({Fail(ErrNotFound, a)})
          [] o = "merge" ->
                 same({Ok("{}", a), Fail(ErrUpToDate, a), Fail(ErrConflict, a)})

(***************************************************************************)
(* Checklist files.                                                        *)
(***************************************************************************)
\* append_to_file: add a line; adding a line the file holds is a no-op
AppendToFile(lines, line) == IF line \in Range(lines) THEN lines ELSE Append(lines, line)

\* the comprehension of line 213 dropping the first line instead
RemoveLineHead(lines, username) == Tail(lines)

\* create_new_fork: new_lines = [line for line in lines if line != username]
RemoveLine(lines, username) == SelectSeq2(lines, Range(lines) \ {username})

(***************************************************************************)
(* Pure helpers of the fork batch.                                         *)
(***************************************************************************)
\* check_if_correct_fork comparing the two names without .lower()
IsCorrectForkCaseSensitive(result, expected_parent) ==
    IF ~result.success THEN FALSE
    ELSE StripChars(Strip(result.output), {"\""}) = expected_parent

\* check_if_correct_fork, from the probe's result
IsCorrectFork(result, expected_parent) ==
    IF ~result.success THEN FALSE
    ELSE Lower(StripChars(Strip(result.output), {"\""})) = Lower(expected_parent)

\* get_default_branch, from the query's result
DefaultBranch(result) ==
    IF result.success /\ Strip(result.output) # ""
    THEN StripChars(Strip(result.output), {"\""})
    ELSE "main"

\* {u: t for t, u in token_cache.items() if u != main_username}: each username is
\* one key, at the place of its first entry (every request of an account is made
\* with a token of that account)
RECURSIVE DictKeys(_, _)
DictKeys(cache, seen) ==
    IF cache = <<>> THEN <<>>
    ELSE IF Head(cache) \in seen THEN DictKeys(Tail(cache), seen)
    ELSE <<Head(cache)>> \o DictKeys(Tail(cache), seen \cup {Head(cache)})

\* the comprehension of line 273 without its condition
UsersToProcessAll(cache) == DictKeys(cache, {})

UsersToProcess(cache) == DictKeys(cache, {main_username})

username == users_to_process[i]
fork_repo_path == RepoPath(username, main_repo_name)

(***************************************************************************)
(* The fork batch: invoke_auto_create_or_sync_fork.                        *)
(***************************************************************************)
Caches == UNION {[1..n -> Users] : n \in 0..MaxAccounts}

NoDupSeqs(S) ==
    {q \in UNION {[1..n -> S] : n \in 0..Cardinality(S)} :
        \A a, b \in 1..Len(q) : a # b => q[a] # q[b]}

ModeInputs == {"1", "2", " 2\n", "3", ""}
ConfirmInputs == {"y", "Y", "n", "", " y", "yes"}

InitIdleInvite ==
    /\ invited = <<>>
    /\ users_to_invite = <<>>
    /\ invites = [u \in Users |-> 0]
    /\ run = 0
    /\ invite_result = NoCall

InitIdleClassify ==
    /\ op = ""
    /\ text = ""
    /\ verdict = ""

InitIdleAccept ==
    /\ accepted = <<>>
    /\ accepted_users = <<>>
    /\ accepted_count = 0
    /\ skipped_count = 0
    /\ no_invite_count = 0
    /\ accepts = [u \in Users |-> 0]

idleAccept == <<accepted, accepted_users, accepted_count, skipped_count, no_invite_count,
                accepts>>

InitFork ==
    /\ pc = "start"
    /\ token_cache \in Caches
    /\ users_to_process = <<>>
    /\ action = ""
    /\ confirm = ""
    /\ i = 0
    /\ success_count = 0
    /\ failed_count = 0
    /\ forked \in NoDupSeqs(Range(token_cache) \cap Collaborators)
    /\ remote = [p \in Paths |-> IF p = source_repo THEN "upstream" ELSE "unseen"]
    /\ calls = NoCalls
    /\ issued = [p \in Paths |-> {}]
    /\ stale_removed = FALSE
    /\ flaky \in BOOLEAN
    /\ outcome = [p \in Paths |-> "-"]
    /\ elapsed = 0
    /\ gap = 0
    /\ InitIdleInvite
    /\ InitIdleClassify
    /\ InitIdleAccept

idleInFork == <<invited, users_to_invite, invites, run, invite_result, op, text, verdict,
                flaky, idleAccept>>

\* lines 258-278: load the files, build users_to_process; token_cache is not read
\* after line 273
LoadFork ==
    /\ pc = "start"
    /\ token_cache' = <<>>
    /\ outcome' = [p \in Paths |->
            IF \E u \in Range(token_cache) \ Range(UsersToProcess(token_cache)) :
                   p = RepoPath(u, main_repo_name)
            THEN "excluded" ELSE outcome[p]]
    /\ users_to_process' = IF token_cache = <<>> THEN <<>> ELSE UsersToProcess(token_cache)
    /\ pc' = IF token_cache = <<>> THEN "exit_nocache"
             ELSE IF UsersToProcess(token_cache) = <<>> THEN "exit_nousers"
             ELSE "mode"
    /\ UNCHANGED <<action, confirm, i, success_count, failed_count, forked, remote,
                   calls, issued, stale_removed, elapsed, gap>>
    /\ UNCHANGED idleInFork

\* lines 287-296: the mode prompt, asked again until the answer is 1 or 2
PromptMode ==
    /\ pc = "mode"
    /\ \E answer \in ModeInputs :
          LET chosen == Strip(answer)
          IN  IF chosen \in {"1", "2"}
              THEN /\ action' = chosen
                   /\ pc' = IF chosen = "1" THEN "probe" ELSE "confirm"
                   /\ i' = IF chosen = "1" THEN 1 ELSE i
              ELSE UNCHANGED <<action, pc, i>>
    /\ UNCHANGED <<users_to_process, confirm, success_count, failed_count, forked,
                   remote, calls, issued, stale_removed, outcome, elapsed, gap,
                   token_cache>>
    /\ UNCHANGED idleInFork

\* PromptConfirm without the return of lines 298-299
PromptConfirmAlways ==
    /\ pc = "confirm"
    /\ \E answer \in ConfirmInputs :
          /\ confirm' = Lower(answer)
          /\ pc' = "probe" /\ i' = 1
    /\ UNCHANGED <<users_to_process, action, success_count, failed_count, forked, remote,
                   calls, issued, stale_removed, outcome, elapsed, gap, token_cache>>
    /\ UNCHANGED idleInFork

\* lines 297-299: the confirmation of the destructive mode
PromptConfirm ==
    /\ pc = "confirm"
    /\ \E answer \in ConfirmInputs :
          /\ confirm' = Lower(answer)
          /\ IF Lower(answer) # "y"
             THEN pc' = "aborted" /\ i' = i
             ELSE pc' = "probe" /\ i' = 1
    /\ UNCHANGED <<users_to_process, action, success_count, failed_count, forked, remote,
                   calls, issued, stale_removed, outcome, elapsed, gap, token_cache>>
    /\ UNCHANGED idleInFork

\* the results of operation o on a path of this kind in this run: without
\* transient failures a request that can succeed does
ResultsOn(o, kind, a) ==
    LET all == RunGhApi(o, kind, a)
        good == {r \in all : r.res.success}
    IN  IF flaky \/ good = {} THEN all ELSE good

Results(o, path, a) == ResultsOn(o, remote[path], a)

\* one remote request on path: the result is recorded, the remote moves on
Request(o, path, a, r) ==
    /\ r \in Results(o, path, a)
    /\ calls' = [calls EXCEPT ![o] = r.res]
    /\ issued' = [issued EXCEPT ![path] = @ \cup {o}]
    /\ remote' = [remote EXCEPT ![path] = r.after]

\* the end of one pass of the for loop
NextAccount ==
    /\ i' = i + 1
    /\ pc' = IF i + 1 > Len(users_to_process) THEN "done" ELSE "probe"

\* Counted without the failed_count += 1 of the failure branches
CountedSuccessOnly(ok) ==
    /\ success_count' = IF ok THEN success_count + 1 ELSE success_count
    /\ failed_count' = failed_count
    /\ outcome' = [outcome EXCEPT ![fork_repo_path] = IF ok THEN "success" ELSE "failed"]

Counted(ok) ==
    /\ success_count' = IF ok THEN success_count + 1 ELSE success_count
    /\ failed_count' = IF ok THEN failed_count ELSE failed_count + 1
    /\ outcome' = [outcome EXCEPT ![fork_repo_path] = IF ok THEN "success" ELSE "failed"]

\* ProbeParent taking the branch of line 315 in both modes
ProbeParentAlwaysClean ==
    /\ pc = "probe"
    /\ \E kind \in (IF remote[fork_repo_path] = "unseen" THEN RepoKinds
                      ELSE {remote[fork_repo_path]}) :
       \E r \in ResultsOn("parent", kind, "") :
          /\ calls' = [NoCalls EXCEPT !["parent"] = r.res]
          /\ stale_removed' = FALSE
          /\ issued' = [issued EXCEPT ![fork_repo_path] = @ \cup {"parent"}]
          /\ remote' = [remote EXCEPT ![fork_repo_path] = r.after]
          /\ pc' = "exists"
    /\ gap' = 0
    /\ UNCHANGED <<users_to_process, action, confirm, i, success_count, failed_count,
                   forked, outcome, elapsed, token_cache>>
    /\ UNCHANGED idleInFork

\* line 313: is_fork_valid = check_if_correct_fork(...), then the branch on action
ProbeParent ==
    /\ pc = "probe"
    /\ \E kind \in (IF remote[fork_repo_path] = "unseen" THEN RepoKinds
                      ELSE {remote[fork_repo_path]}) :
       \E r \in ResultsOn("parent", kind, "") :
          /\ calls' = [NoCalls EXCEPT !["parent"] = r.res]
          /\ stale_removed' = FALSE
          /\ issued' = [issued EXCEPT ![fork_repo_path] = @ \cup {"parent"}]
          /\ remote' = [remote EXCEPT ![fork_repo_path] = r.after]
          /\ pc' = IF action = "2" THEN "exists"
                   ELSE IF IsCorrectFork(r.res, source_repo) THEN "sync_branch"
                   ELSE "cnf_stale"
    /\ gap' = 0
    /\ UNCHANGED <<users_to_process, action, confirm, i, success_count, failed_count,
                   forked, outcome, elapsed, token_cache>>
    /\ UNCHANGED idleInFork

\* CheckExists deleting only what the parentage probe took for a valid fork
CheckExistsValidOnly ==
    /\ pc = "exists"
    /\ \E r \in Results("exists", fork_repo_path, "") :
          /\ Request("exists", fork_repo_path, "", r)
          /\ pc' = IF r.res.success /\ IsCorrectFork(calls["parent"], source_repo)
                   THEN "delete" ELSE "cnf_stale"
    /\ gap' = 0
    /\ UNCHANGED <<users_to_process, action, confirm, i, success_count, failed_count,
                   forked, stale_removed, outcome, elapsed, token_cache>>
    /\ UNCHANGED idleInFork

\* lines 318-324: the existence check of the destructive mode
CheckExists ==
    /\ pc = "exists"
    /\ \E r \in Results("exists", fork_repo_path, "") :
          /\ Request("exists", fork_repo_path, "", r)
          /\ pc' = IF r.res.success THEN "delete" ELSE "cnf_stale"
    /\ gap' = 0
    /\ UNCHANGED <<users_to_process, action, confirm, i, success_count, failed_count,
                   forked, stale_removed, outcome, elapsed, token_cache>>
    /\ UNCHANGED idleInFork

\* lines 167-169: delete_repository sends the DELETE request
DeleteSend ==
    /\ pc = "delete"
    /\ calls' = [calls EXCEPT !["delete"] = Sent("")]
    /\ issued' = [issued EXCEPT ![fork_repo_path] = @ \cup {"delete"}]
    /\ pc' = "deleting"
    /\ gap' = 0
    /\ UNCHANGED <<users_to_process, action, confirm, i, success_count, failed_count,
                   forked, remote, stale_removed, outcome, elapsed, token_cache>>
    /\ UNCHANGED idleInFork

\* DeleteDone without the `continue` of line 322
DeleteDoneNoContinue ==
    /\ pc = "deleting"
    /\ \E r \in Results("delete", fork_repo_path, "") :
          /\ Request("delete", fork_repo_path, "", r)
          /\ gap' = IF r.res.success THEN DELETE_SLEEP ELSE 0
          /\ pc' = "cnf_stale"
          /\ UNCHANGED <<i, success_count, failed_count, outcome>>
    /\ UNCHANGED <<users_to_process, action, confirm, forked, stale_removed, elapsed,
                   token_cache>>
    /\ UNCHANGED idleInFork

\* DeleteDone leaving the loop where line 322 continues it
DeleteDoneBreak ==
    /\ pc = "deleting"
    /\ \E r \in Results("delete", fork_repo_path, "") :
          /\ Request("delete", fork_repo_path, "", r)
          /\ IF r.res.success
             THEN /\ gap' = DELETE_SLEEP
                  /\ pc' = "cnf_stale"
                  /\ UNCHANGED <<i, success_count, failed_count, outcome>>
             ELSE /\ gap' = 0
                  /\ Counted(FALSE)
                  /\ i' = i + 1
                  /\ pc' = "done"
    /\ UNCHANGED <<users_to_process, action, confirm, forked, stale_removed, elapsed,
                   token_cache>>
    /\ UNCHANGED idleInFork

\* lines 170-178 and 320-322: the DELETE request's result
DeleteDone ==
    /\ pc = "deleting"
    /\ \E r \in Results("delete", fork_repo_path, "") :
          /\ Request("delete", fork_repo_path, "", r)
          /\ IF r.res.success
             THEN /\ gap' = DELETE_SLEEP
                  /\ pc' = "cnf_stale"
                  /\ UNCHANGED <<i, success_count, failed_count, outcome>>
             ELSE /\ gap' = 0
                  /\ Counted(FALSE)
                  /\ NextAccount
    /\ UNCHANGED <<users_to_process, action, confirm, forked, stale_removed, elapsed,
                   token_cache>>
    /\ UNCHANGED idleInFork

(***************************************************************************)
(* create_new_fork(username, token, source_repo).                          *)
(***************************************************************************)
\* line 206: fork_repo_path = f"{username}/{source_repo.split('/')[1]}"
cnf_fork_repo_path == RepoPath(username, SplitSecond(source_repo))

\* CnfStale writing back an empty list instead of new_lines
CnfStaleClearsAll ==
    /\ pc = "cnf_stale"
    /\ forked' = IF username \in Range(forked) THEN <<>> ELSE forked
    /\ stale_removed' = (username \in Range(forked))
    /\ pc' = "cnf_post"
    /\ UNCHANGED <<users_to_process, action, confirm, i, success_count, failed_count,
                   remote, calls, issued, outcome, elapsed, gap, token_cache>>
    /\ UNCHANGED idleInFork

\* lines 208-215: the stale checklist entry of this account is removed
CnfStale ==
    /\ pc = "cnf_stale"
    /\ forked' = IF username \in Range(forked) THEN RemoveLine(forked, username) ELSE forked
    /\ stale_removed' = (username \in Range(forked))
    /\ pc' = "cnf_post"
    /\ UNCHANGED <<users_to_process, action, confirm, i, success_count, failed_count,
                   remote, calls, issued, outcome, elapsed, gap, token_cache>>
    /\ UNCHANGED idleInFork

\* lines 217-232: the fork-creation request; a failure ends the account unless the
\* error text says the name is taken
CnfPost ==
    /\ pc = "cnf_post"
    /\ \E r \in Results("create", cnf_fork_repo_path, source_repo) :
          /\ Request("create", cnf_fork_repo_path, source_repo, r)
          /\ IF r.res.success \/ CreateErrIsSuccess(r.res.error)
             THEN /\ pc' = "poll"
                  /\ UNCHANGED <<i, success_count, failed_count, outcome>>
             ELSE /\ pc' = "pace"
                  /\ Counted(FALSE)
                  /\ i' = i
    /\ elapsed' = 0
    /\ gap' = 0
    /\ UNCHANGED <<users_to_process, action, confirm, forked, stale_removed, token_cache>>
    /\ UNCHANGED idleInFork

\* lines 234-240: one pass of the polling loop, the probe taking d time units
CnfPoll ==
    /\ pc = "poll"
    /\ elapsed < timeout
    /\ \E d \in 0..MaxProbeTime : \E r \in Results("poll", cnf_fork_repo_path, "") :
          /\ Request("poll", cnf_fork_repo_path, "", r)
          /\ IF r.res.success
             THEN /\ elapsed' = 0
                  /\ gap' = 0
                  /\ pc' = "cnf_disable"
             ELSE /\ elapsed' = elapsed + d + POLL_SLEEP
                  /\ gap' = POLL_SLEEP
                  /\ pc' = "poll"
    /\ UNCHANGED <<users_to_process, action, confirm, i, success_count, failed_count,
                   forked, stale_removed, outcome, token_cache>>
    /\ UNCHANGED idleInFork

\* CnfTimeout sending the creation request again instead of returning False
CnfTimeoutRetry ==
    /\ pc = "poll"
    /\ ~(elapsed < timeout)
    /\ pc' = "cnf_post"
    /\ elapsed' = 0
    /\ UNCHANGED <<users_to_process, action, confirm, i, forked, remote, calls, issued,
                   stale_removed, gap, token_cache, success_count, failed_count, outcome>>
    /\ UNCHANGED idleInFork

\* lines 234 and 242-244: the loop condition fails with fork_created still False
CnfTimeout ==
    /\ pc = "poll"
    /\ ~(elapsed < timeout)
    /\ pc' = "pace"
    /\ Counted(FALSE)
    /\ elapsed' = 0
    /\ UNCHANGED <<users_to_process, action, confirm, i, forked, remote, calls, issued,
                   stale_removed, gap, token_cache>>
    /\ UNCHANGED idleInFork

\* CnfDisable returning False when the workflow-disable call fails
CnfDisableStrict ==
    /\ pc = "cnf_disable"
    /\ \E r \in Results("disable", cnf_fork_repo_path, "datagram-runner.yml") :
          /\ Request("disable", cnf_fork_repo_path, "datagram-runner.yml", r)
          /\ forked' = IF r.res.success THEN AppendToFile(forked, username) ELSE forked
          /\ Counted(r.res.success)
    /\ pc' = "pace"
    /\ elapsed' = 0
    /\ gap' = 0
    /\ UNCHANGED <<users_to_process, action, confirm, i, stale_removed, token_cache>>
    /\ UNCHANGED idleInFork

\* lines 246-252: the workflow is disabled (result ignored), the account is added
\* to the checklist, the caller counts a success
CnfDisable ==
    /\ pc = "cnf_disable"
    /\ \E r \in Results("disable", cnf_fork_repo_path, "datagram-runner.yml") :
          Request("disable", cnf_fork_repo_path, "datagram-runner.yml", r)
    /\ forked' = AppendToFile(forked, username)
    /\ Counted(TRUE)
    /\ pc' = "pace"
    /\ elapsed' = 0
    /\ gap' = 0
    /\ UNCHANGED <<users_to_process, action, confirm, i, stale_removed, token_cache>>
    /\ UNCHANGED idleInFork

(***************************************************************************)
(* sync_fork_with_upstream(fork_repo, token).                              *)
(***************************************************************************)
\* line 184: default_branch = get_default_branch(fork_repo, token)
SyncBranch ==
    /\ pc = "sync_branch"
    /\ \E r \in Results("branch", fork_repo_path, "") :
          Request("branch", fork_repo_path, "", r)
    /\ pc' = "sync_disable"
    /\ gap' = 0
    /\ UNCHANGED <<users_to_process, action, confirm, i, success_count, failed_count,
                   forked, stale_removed, outcome, elapsed, token_cache>>
    /\ UNCHANGED idleInFork

\* SyncDisable giving up the sync when the workflow-disable call fails
SyncDisableStrict ==
    /\ pc = "sync_disable"
    /\ \E r \in Results("disable", fork_repo_path, "datagram-runner.yml") :
          /\ Request("disable", fork_repo_path, "datagram-runner.yml", r)
          /\ IF r.res.success
             THEN /\ pc' = "sync_merge"
                  /\ UNCHANGED <<success_count, failed_count, outcome>>
             ELSE /\ pc' = "pace"
                  /\ Counted(FALSE)
    /\ gap' = 0
    /\ UNCHANGED <<users_to_process, action, confirm, i, forked, stale_removed, elapsed,
                   token_cache>>
    /\ UNCHANGED idleInFork

\* line 187: disable_workflow(fork_repo, token, "datagram-runner.yml")
SyncDisable ==
    /\ pc = "sync_disable"
    /\ \E r \in Results("disable", fork_repo_path, "datagram-runner.yml") :
          Request("disable", fork_repo_path, "datagram-runner.yml", r)
    /\ pc' = "sync_merge"
    /\ gap' = 0
    /\ UNCHANGED <<users_to_process, action, confirm, i, success_count, failed_count,
                   forked, stale_removed, outcome, elapsed, token_cache>>
    /\ UNCHANGED idleInFork

\* lines 189-201 and 335-338: the merge-upstream request and its classification
SyncMerge ==
    /\ pc = "sync_merge"
    /\ LET default_branch == DefaultBranch(calls["branch"])
       IN  \E r \in Results("merge", fork_repo_path, default_branch) :
              /\ Request("merge", fork_repo_path, default_branch, r)
              /\ Counted(r.res.success \/ SyncErrIsSuccess(r.res.error))
    /\ pc' = "pace"
    /\ gap' = 0
    /\ UNCHANGED <<users_to_process, action, confirm, i, forked, stale_removed, elapsed,
                   token_cache>>
    /\ UNCHANGED idleInFork

\* line 346: time.sleep(2), then the next account
Pace ==
    /\ pc = "pace"
    /\ gap' = gap + ACCOUNT_SLEEP
    /\ NextAccount
    /\ UNCHANGED <<users_to_process, action, confirm, success_count, failed_count,
                   forked, remote, calls, issued, stale_removed, outcome, elapsed,
                   token_cache>>
    /\ UNCHANGED idleInFork

NextFork ==
    \/ LoadFork
    \/ PromptMode
    \/ PromptConfirm
    \/ ProbeParent
    \/ CheckExists
    \/ DeleteSend
    \/ DeleteDone
    \/ CnfStale
    \/ CnfPost
    \/ CnfPoll
    \/ CnfTimeout
    \/ CnfDisable
    \/ SyncBranch
    \/ SyncDisable
    \/ SyncMerge
    \/ Pace

SpecFork == InitFork /\ [][NextFork]_vars

(***************************************************************************)
(* Properties of the fork batch.                                           *)
(***************************************************************************)
PathOf(k) == RepoPath(users_to_process[k], main_repo_name)

\* the loop is at an account: i indexes users_to_process
InLoop == pc \in {"probe", "exists", "delete", "deleting", "cnf_stale", "cnf_post", "poll",
                  "cnf_disable", "sync_branch", "sync_disable", "sync_merge", "pace"}

\* the index of the account whose results calls holds
LastIndex == IF pc \in {"probe", "done"} THEN i - 1 ELSE i

NewlyIssued(o, p) == o \in issued'[p] /\ o \notin issued[p]

\* C1: in destructive mode a deletion request that was issued for an account has
\* finished before a fork-creation request is issued for that account (none is
\* issued while the deletion is in flight), and after a failed deletion no
\* fork-creation request is issued for that account in the rest of the run: a
\* creation request goes to the account being processed only, and when a deletion
\* was requested for that account the deletion has finished with success.
C1_StateInv ==
    action = "2" =>
        /\ pc = "deleting" =>
               /\ calls["delete"] = Sent("")
               /\ ~calls["create"].issued
               /\ "create" \notin issued[fork_repo_path]
        /\ (calls["create"].issued /\ calls["delete"].issued) => calls["delete"].success
        /\ \A k \in 1..Len(users_to_process) :
               k > LastIndex => issued[PathOf(k)] = {}

C1_Step ==
    action = "2" =>
        \A p \in Paths :
            NewlyIssued("create", p) =>
                /\ InLoop
                /\ p = fork_repo_path
                /\ calls["delete"] # Sent("")
                /\ "delete" \in issued[p] => calls["delete"].success

C1_DeleteBeforeCreate == []C1_StateInv /\ [][C1_Step]_vars

\* the first account's deletion failed and it got no creation request; the second
\* account's deletion succeeded and its creation request is about to be sent
C1_Witness ==
    /\ action = "2"
    /\ pc = "cnf_post"
    /\ i = 2
    /\ calls["delete"].success
    /\ outcome[PathOf(1)] = "failed"
    /\ "delete" \in issued[PathOf(1)]
    /\ "create" \notin issued[PathOf(1)]

\* C2 as stated: in non-destructive mode no creation request is issued for a path
\* that holds a fork of the expected upstream, and no merge request is issued for
\* a path that holds no such fork unless a creation succeeded for it, whatever the
\* parentage probe returned.
C2_AsStated ==
    [][action = "1" =>
        \A p \in Paths :
            /\ NewlyIssued("create", p) => remote[p] # "fork"
            /\ NewlyIssued("merge", p) => (remote[p] = "fork" \/ calls["create"].success)]_vars

\* C2: in non-destructive mode a creation request is issued for the account being
\* processed only, and never when the parentage probe fetched the parent of a fork
\* of the expected upstream; a merge request is issued only for a path that holds a
\* fork of the expected upstream whose parentage probe succeeded, and never after a
\* creation request of the same account.  A probe that fails to fetch sends the
\* account to creation also when its fork is valid.
C2_Step ==
    action = "1" =>
        \A p \in Paths :
            /\ NewlyIssued("create", p) =>
                   /\ p = fork_repo_path
                   /\ ~(calls["parent"].success /\ remote[p] = "fork")
                   /\ "merge" \notin issued[p]
            /\ NewlyIssued("merge", p) =>
                   /\ p = fork_repo_path
                   /\ calls["parent"].success
                   /\ remote[p] = "fork"
                   /\ "create" \notin issued[p]

C2_ProbeDecides == [][C2_Step]_vars

\* the first account's valid fork was synchronised without a creation request; the
\* second account's fork is valid too, its probe failed to fetch and the creation
\* request has been sent
C2_Witness ==
    /\ action = "1"
    /\ pc = "poll"
    /\ i = 2
    /\ "merge" \in issued[PathOf(1)]
    /\ "create" \notin issued[PathOf(1)]
    /\ ~calls["parent"].success
    /\ remote[fork_repo_path] = "fork"
    /\ calls["create"].issued
    /\ "merge" \notin issued[fork_repo_path]

\* C3 as stated: the readiness poll never blocks longer than timeout, and the fork
\* is reported ready only after an existence probe returned success.
C3_PollBound ==
    /\ pc = "poll" => elapsed <= timeout
    /\ pc = "cnf_disable" => calls["poll"].success

\* C4: a deletion request is issued only in destructive mode after the answer y to
\* the confirmation; after any other answer the run has ended with no remote
\* request issued, and up to the end of the prompts no checklist and no remote
\* repository has changed.
C4_StateInv ==
    /\ (\E p \in Paths : "delete" \in issued[p]) => (action = "2" /\ confirm = "y")
    /\ calls["delete"].issued => (action = "2" /\ confirm = "y")
    /\ (action = "2" /\ confirm # "y") =>
           /\ pc \in {"confirm", "aborted"}
           /\ \A p \in Paths : issued[p] = {}
           /\ calls = NoCalls
           /\ success_count = 0 /\ failed_count = 0
    /\ pc = "aborted" => (action = "2" /\ confirm # "y")

C4_Step ==
    /\ pc \in {"start", "mode", "confirm", "aborted"} =>
           /\ forked' = forked
           /\ invited' = invited
           /\ remote' = remote
           /\ issued' = issued
    /\ pc = "aborted" => vars' = vars

C4_ConfirmBeforeDelete == []C4_StateInv /\ [][C4_Step]_vars

\* the operator declined; the checklist holds entries and nothing was requested
C4_Witness ==
    /\ pc = "aborted"
    /\ action = "2"
    /\ confirm = "n"
    /\ forked # <<>>
    /\ \A p \in Paths : issued[p] = {}

\* C5: for every content of the token cache and in both modes, the main account is
\* not among the accounts the batch processes and no request of any kind is
\* issued on the upstream repository's own path, which stays as it was.
C5_MainNeverTarget ==
    /\ issued[source_repo] = {}
    /\ remote[source_repo] = "upstream"
    /\ outcome[source_repo] \in {"-", "excluded"}
    /\ main_username \notin Range(users_to_process)
    /\ InLoop => (fork_repo_path # source_repo /\ cnf_fork_repo_path # source_repo)
    /\ pc = "start" => main_username \notin Range(UsersToProcess(token_cache))

\* the token cache held the main account; the batch is over and has created a fork
\* for another account
C5_Witness ==
    /\ pc = "done"
    /\ outcome[source_repo] = "excluded"
    /\ Len(users_to_process) >= 1
    /\ \E p \in Paths : {"create", "disable"} \subseteq issued[p]

\* what the responses to an account's own requests make of the account
OwnOutcome ==
    IF calls["merge"].issued
    THEN IF calls["merge"].success \/ SyncErrIsSuccess(calls["merge"].error)
         THEN "success" ELSE "failed"
    ELSE IF calls["delete"].issued /\ ~calls["delete"].success THEN "failed"
    ELSE IF ~(calls["create"].success \/ CreateErrIsSuccess(calls["create"].error))
    THEN "failed"
    ELSE IF calls["poll"].success THEN "success"
    ELSE "failed"

Finished(k) == outcome[PathOf(k)] \in {"success", "failed"}

\* C6: whatever failure an account ends with, the accounts after it are processed
\* in the same run: when the batch is over every account has an outcome; an
\* account's outcome is determined by the responses to its own requests; and the
\* accounts not yet reached are untouched by the accounts before them.
C6_FailuresIsolated ==
    /\ pc = "done" =>
           /\ i = Len(users_to_process) + 1
           /\ \A k \in 1..Len(users_to_process) : Finished(k)
    /\ pc \in {"probe", "pace", "done"} =>
           /\ \A k \in 1..Len(users_to_process) : k <= LastIndex => Finished(k)
           /\ LastIndex >= 1 => outcome[PathOf(LastIndex)] = OwnOutcome
    /\ InLoop =>
           \A k \in 1..Len(users_to_process) :
               k > LastIndex =>
                   /\ outcome[PathOf(k)] = "-"
                   /\ issued[PathOf(k)] = {}
                   /\ remote[PathOf(k)] = "unseen"

\* the first account failed and the second, processed after it, succeeded
C6_Witness ==
    /\ pc = "done"
    /\ Len(users_to_process) = 2
    /\ outcome[PathOf(1)] = "failed"
    /\ outcome[PathOf(2)] = "success"
    /\ OwnOutcome = "success"

NumWith(o) == Cardinality({k \in 1..Len(users_to_process) : outcome[PathOf(k)] = o})

\* C7: each account adds one to exactly one counter, and when the batch is over
\* success_count + failed_count is the number of non-main accounts of the token
\* cache; with alice holding a valid fork, bob none, non-destructive mode and every
\* request succeeding the report is 2, 0, 2.
C7_CountsAddUp ==
    /\ pc = "start" =>
           /\ Range(UsersToProcess(token_cache)) = Range(token_cache) \ {main_username}
           /\ Len(UsersToProcess(token_cache)) =
                  Cardinality(Range(token_cache) \ {main_username})
    /\ pc # "start" =>
           /\ Len(users_to_process) = Cardinality(Range(users_to_process))
           /\ success_count = NumWith("success")
           /\ failed_count = NumWith("failed")
    /\ pc = "done" => success_count + failed_count = Len(users_to_process)
    /\ (/\ pc = "done" /\ ~flaky /\ action = "1"
        /\ users_to_process = <<"alice", "bob">>
        /\ "merge" \in issued["alice/repo"]
        /\ "merge" \notin issued["bob/repo"]) =>
           /\ "create" \notin issued["alice/repo"]
           /\ {"create", "poll", "disable"} \subseteq issued["bob/repo"]
           /\ success_count = 2 /\ failed_count = 0 /\ Len(users_to_process) = 2

\* the scenario: alice synchronised, bob created, every request succeeded
C7_Witness ==
    /\ pc = "done" /\ ~flaky /\ action = "1"
    /\ users_to_process = <<"alice", "bob">>
    /\ "merge" \in issued["alice/repo"]
    /\ "create" \in issued["bob/repo"]
    /\ success_count = 2 /\ failed_count = 0

Removed(u) == u \in Range(forked) /\ u \notin Range(forked')

\* C10 as stated: an account leaves the forked checklist only by the stale-entry
\* repair, and only when its fork is absent, is not a fork of the upstream or has
\* just been deleted.
C10_AsStated ==
    [][\A u \in Users :
          Removed(u) =>
              /\ pc = "cnf_stale"
              /\ u = username
              /\ remote[fork_repo_path] \in {"none", "other"}]_vars

\* C10: an account leaves the forked checklist only in the stale-entry removal of
\* create_new_fork for that account, the other entries staying in their order;
\* create_new_fork runs in non-destructive mode when the parentage probe did not
\* confirm a fork of the upstream (the probe having failed to fetch included) and
\* in destructive mode when the existence check failed or the deletion succeeded.
C10_Step ==
    /\ \A u \in Users :
          Removed(u) =>
              /\ pc = "cnf_stale"
              /\ u = username
              /\ action = "1" => ~(calls["parent"].success /\ remote[fork_repo_path] = "fork")
              /\ action = "2" => (~calls["exists"].success \/ calls["delete"].success)
    /\ (\E u \in Users : Removed(u)) => forked' = RemoveLine(forked, username)
    /\ \A u \in Users : (u \in Range(forked') /\ u \notin Range(forked)) =>
          (pc = "cnf_disable" /\ u = username)

C10_RemovalOnlyInRepair == [][C10_Step]_vars

\* the entry of an account whose fork is valid was removed after its parentage
\* probe failed to fetch, the other account's entry staying
C10_Witness ==
    /\ pc = "cnf_post"
    /\ action = "1"
    /\ stale_removed
    /\ ~calls["parent"].success
    /\ remote[fork_repo_path] = "fork"
    /\ username \notin Range(forked)
    /\ forked # <<>>

(***************************************************************************)
(* The collaborator-invite flow: invoke_auto_invite.                       *)
(***************************************************************************)
InitIdleFork ==
    /\ users_to_process = <<>>
    /\ action = ""
    /\ confirm = ""
    /\ forked = <<>>
    /\ remote = [p \in Paths |-> IF p = source_repo THEN "upstream" ELSE "unseen"]
    /\ calls = NoCalls
    /\ issued = [p \in Paths |-> {}]
    /\ stale_removed = FALSE
    /\ flaky = TRUE
    /\ outcome = [p \in Paths |-> "-"]
    /\ elapsed = 0

idleInInvite == <<users_to_process, action, confirm, forked, remote, calls, issued,
                  stale_removed, flaky, outcome, elapsed, op, text, verdict, idleAccept>>

\* line 47: [u for u in token_cache.values() if u not in invited_users and
\* u != main_username]
RECURSIVE UsersToInvite(_, _)
UsersToInvite(cache, invited_users) ==
    IF cache = <<>> THEN <<>>
    ELSE IF Head(cache) \notin Range(invited_users) /\ Head(cache) # main_username
    THEN <<Head(cache)>> \o UsersToInvite(Tail(cache), invited_users)
    ELSE UsersToInvite(Tail(cache), invited_users)

\* run_gh_api on PUT repos/<repo_path>/collaborators/<username>
InviteResults(u) == {Ok("", u), Fail(ErrCollaborator, u), Fail(ErrNet, u)}

InitInvite ==
    /\ pc = "inv_start"
    /\ token_cache \in Caches
    /\ invited \in NoDupSeqs(Collaborators)
    /\ users_to_invite = <<>>
    /\ invites = [u \in Users |-> 0]
    /\ run = 0
    /\ invite_result = NoCall
    /\ i = 0
    /\ success_count = 0
    /\ failed_count = 0
    /\ gap = 0
    /\ InitIdleFork
    /\ InitIdleClassify
    /\ InitIdleAccept

\* lines 37-54: the files are read and users_to_invite is built
LoadInvite ==
    /\ pc = "inv_start"
    /\ run' = run + 1
    /\ users_to_invite' = IF token_cache = <<>> THEN <<>>
                          ELSE UsersToInvite(token_cache, invited)
    /\ pc' = IF token_cache = <<>> THEN "inv_nocache"
             ELSE IF UsersToInvite(token_cache, invited) = <<>> THEN "inv_nothing"
             ELSE "inviting"
    /\ i' = 1
    /\ success_count' = 0
    /\ failed_count' = 0
    /\ UNCHANGED <<token_cache, invited, invites, invite_result, gap>>
    /\ UNCHANGED idleInInvite

\* lines 58-77: one pass of the loop, an invitation request and its classification
Invite ==
    /\ pc = "inviting"
    /\ LET u == users_to_invite[i]
       IN  \E r \in InviteResults(u) :
              /\ invite_result' = r
              /\ invites' = [invites EXCEPT ![u] = @ + 1]
              /\ IF r.success \/ InviteErrIsSuccess(r.error)
                 THEN /\ invited' = AppendToFile(invited, u)
                      /\ success_count' = success_count + 1
                      /\ failed_count' = failed_count
                 ELSE /\ invited' = invited
                      /\ success_count' = success_count
                      /\ failed_count' = failed_count + 1
    /\ gap' = 1
    /\ i' = i + 1
    /\ pc' = IF i + 1 > Len(users_to_invite) THEN "inv_report" ELSE "inviting"
    /\ UNCHANGED <<token_cache, users_to_invite, run>>
    /\ UNCHANGED idleInInvite

\* the operator starts the flow again on the files the last run left
RunInviteAgain ==
    /\ pc \in {"inv_nocache", "inv_nothing", "inv_report"}
    /\ run < MaxRuns
    /\ pc' = "inv_start"
    /\ UNCHANGED <<token_cache, invited, users_to_invite, invites, run, invite_result, i,
                   success_count, failed_count, gap>>
    /\ UNCHANGED idleInInvite

NextInvite ==
    \/ LoadInvite
    \/ Invite
    \/ RunInviteAgain

SpecInvite == InitInvite /\ [][NextInvite]_vars

\* C9 as stated: an invitation request goes only to an account that is not in the
\* invited checklist, in the first run of the flow and in a later one, and a
\* request that succeeds or fails with "already a collaborator" appends the account
\* to the checklist once and counts one success.
C9_InviteIdempotent ==
    [][\A u \in Users :
          invites'[u] > invites[u] =>
              /\ u \notin Range(invited)
              /\ invites'[u] = invites[u] + 1
              /\ (invite_result'.success \/ invite_result'.error = ErrCollaborator) =>
                     /\ invited' = Append(invited, u)
                     /\ success_count' = success_count + 1
                     /\ failed_count' = failed_count]_vars

(***************************************************************************)
(* The classification of error texts, operation by operation.              *)
(***************************************************************************)
ClassifiedOps == {"invite", "create", "merge"}

ErrorPrefixes == {"", "HTTP 422: "}
ErrorCores == {"already a collaborator", "User Is Already A Collaborator",
               "forks must have unique names", "Forks Must Have Unique Names",
               "already up-to-date", "This Branch Is Already Up-To-Date",
               "branch is up to date", "up-to-date", "name already exists",
               "Not Found", "merge conflict", "forks must have unique name",
               "uptodate", ""}
ErrorTexts == {a \o b : a \in ErrorPrefixes, b \in ErrorCores}

InitClassify ==
    /\ pc = "classify"
    /\ op \in ClassifiedOps
    /\ text \in ErrorTexts
    /\ verdict = ""
    /\ token_cache = <<>>
    /\ i = 0
    /\ success_count = 0
    /\ failed_count = 0
    /\ gap = 0
    /\ InitIdleFork
    /\ InitIdleInvite
    /\ InitIdleAccept

idleInClassify == <<token_cache, users_to_process, action, confirm, i, success_count,
                    failed_count, forked, invited, users_to_invite, remote, calls, issued,
                    stale_removed, flaky, outcome, elapsed, gap, invites, run,
                    invite_result, op, text, idleAccept>>

Verdict(ok) == IF ok THEN "success" ELSE "failure"

\* lines 68-76: the else branch of invoke_auto_invite
ClassifyInvite ==
    /\ pc = "classify" /\ op = "invite"
    /\ verdict' = Verdict(InviteErrIsSuccess(text))
    /\ pc' = "classified"
    /\ UNCHANGED idleInClassify

\* lines 219-227: the failure branch of create_new_fork
ClassifyCreate ==
    /\ pc = "classify" /\ op = "create"
    /\ verdict' = Verdict(CreateErrIsSuccess(text))
    /\ pc' = "classified"
    /\ UNCHANGED idleInClassify

\* lines 195-201: the failure branch of sync_fork_with_upstream
ClassifyMerge ==
    /\ pc = "classify" /\ op = "merge"
    /\ verdict' = Verdict(SyncErrIsSuccess(text))
    /\ pc' = "classified"
    /\ UNCHANGED idleInClassify

NextClassify ==
    \/ ClassifyInvite
    \/ ClassifyCreate
    \/ ClassifyMerge

SpecClassify == InitClassify /\ [][NextClassify]_vars

\* C8 as stated: for each of the three operations an error text is a convergence
\* success exactly when it contains one of the three phrases, in any case.
C8_AsStated ==
    pc = "classified" =>
        (verdict = "success" <=>
            \E phrase \in {"already a collaborator", "forks must have unique names",
                           "already up-to-date"} : Contains(phrase, Lower(text)))

\* the error texts of ErrorCores that hold each phrase, whatever the prefix
HoldsCollaborator == {"already a collaborator", "User Is Already A Collaborator"}
HoldsUniqueNames == {"forks must have unique names", "Forks Must Have Unique Names"}
HoldsMergeKeyword == HoldsCollaborator \cup
                     {"already up-to-date", "This Branch Is Already Up-To-Date",
                      "branch is up to date", "up-to-date", "name already exists"}

CoreOf(t) == CHOOSE b \in ErrorCores : \E a \in ErrorPrefixes : t = a \o b

\* C8: each operation has phrases of its own, matched as substrings in any case:
\* a failed invitation is a success exactly on "already a collaborator", a failed
\* creation exactly on "forks must have unique names", a failed merge exactly on
\* "up-to-date", "up to date" or "already"; one operation's phrase is a failure
\* for another operation unless it holds that operation's phrase too.
C8_PhrasesPerOperation ==
    pc = "classified" =>
        /\ op = "invite" => (verdict = "success" <=> CoreOf(text) \in HoldsCollaborator)
        /\ op = "create" => (verdict = "success" <=> CoreOf(text) \in HoldsUniqueNames)
        /\ op = "merge" => (verdict = "success" <=> CoreOf(text) \in HoldsMergeKeyword)
        /\ verdict \in {"success", "failure"}

\* a failed merge whose text holds "already" without "up-to-date" is a success
C8_Witness ==
    /\ pc = "classified"
    /\ op = "merge"
    /\ text = "HTTP 422: name already exists"
    /\ verdict = "success"

(***************************************************************************)
(* Further properties of the fork batch.                                   *)
(***************************************************************************)
\* C11 as stated: when processing of the next account begins (or the batch is
\* over), every account counted as a success, through the create path or through
\* the sync path, is in the forked checklist.
C11_SuccessIsChecklisted ==
    pc \in {"probe", "done"} =>
        \A k \in 1..Len(users_to_process) :
            (k <= LastIndex /\ outcome[PathOf(k)] = "success") =>
                users_to_process[k] \in Range(forked)

\* C12 as stated: when the first request of an account other than the first is
\* about to be issued, at least ACCOUNT_SLEEP time units have been slept since the
\* last request of the account before it.
C12_PacingBetweenAccounts ==
    (pc = "probe" /\ i > 1) => gap >= ACCOUNT_SLEEP

\* C13: the stale-entry removal of create_new_fork takes the entry of the account
\* being processed out of the forked checklist and leaves every other entry, in
\* its place; it issues no request, and the fork-creation request of the account
\* is issued after it, when the account is not in the checklist.
C13_Step ==
    /\ pc = "cnf_stale" =>
           /\ username \notin Range(forked')
           /\ \A u \in Users \ {username} : u \in Range(forked') <=> u \in Range(forked)
           /\ Len(forked') = Cardinality(Range(forked) \ {username})
           /\ \A a, b \in 1..Len(forked') : \A c, d \in 1..Len(forked) :
                  (a < b /\ forked'[a] = forked[c] /\ forked'[b] = forked[d]) => c < d
           /\ issued' = issued
           /\ pc' = "cnf_post"
    /\ \A p \in Paths :
           NewlyIssued("create", p) =>
               (pc = "cnf_post" /\ p = cnf_fork_repo_path /\ username \notin Range(forked))

C13_RepairRemovesOnlyOwnEntry == [][C13_Step]_vars

\* after a successful deletion the entry of the account was removed, another
\* account's entry is still in the checklist and the creation request is next
C13_Witness ==
    /\ pc = "cnf_post"
    /\ action = "2"
    /\ calls["delete"].success
    /\ stale_removed
    /\ username \notin Range(forked)
    /\ \E u \in Range(users_to_process) : u # username /\ u \in Range(forked)
    /\ ~calls["create"].issued

\* the account whose results calls holds
LastUser == users_to_process[LastIndex]

\* the account's processing is over
AccountDone == pc \in {"pace", "probe", "done"} /\ LastIndex >= 1

\* C14: the account is polled exactly when its fork-creation request succeeded or
\* failed with the text saying that forks must have unique names; after any other
\* creation failure the account is counted as failed, with no existence poll, no
\* workflow-disable request and no entry in the forked checklist.
C14_CreationOutcome ==
    /\ pc \in {"poll", "cnf_disable"} =>
           (calls["create"].success \/ calls["create"].error = ErrUnique)
    /\ (calls["create"].success \/ calls["create"].error = ErrUnique) =>
           /\ pc \in {"poll", "cnf_disable", "pace", "probe", "done"}
           /\ AccountDone => calls["poll"].issued
    /\ (calls["create"].issued /\ ~calls["create"].success
            /\ calls["create"].error # ErrUnique) =>
           /\ AccountDone
           /\ outcome[PathOf(LastIndex)] = "failed"
           /\ ~calls["poll"].issued
           /\ ~calls["disable"].issued
           /\ LastUser \notin Range(forked)

\* the second account's creation failed for another reason after its stale entry
\* was removed; the first account was polled after its creation request
C14_Witness ==
    /\ pc = "pace"
    /\ i = 2
    /\ calls["create"].error = ErrNet
    /\ stale_removed
    /\ outcome[fork_repo_path] = "failed"
    /\ {"create", "poll"} \subseteq issued[PathOf(1)]

\* C15: an account whose existence poll succeeded is in the forked checklist and
\* counted as a success when its processing is over, whether its workflow-disable
\* request succeeded or failed; and on the create path the account is in the
\* checklist only after an existence probe of this run succeeded.
C15_ReadyIsRecorded ==
    /\ (AccountDone /\ calls["poll"].success) =>
           /\ calls["disable"].issued
           /\ LastUser \in Range(forked)
           /\ outcome[PathOf(LastIndex)] = "success"
    /\ pc \in {"cnf_post", "poll", "cnf_disable"} => username \notin Range(forked)
    /\ pc = "cnf_disable" => (calls["poll"].success /\ ~calls["disable"].issued)
    /\ (AccountDone /\ calls["create"].issued /\ LastUser \in Range(forked)) =>
           calls["poll"].success

\* the fork is ready, the workflow-disable request failed, and the account is
\* recorded and counted as a success
C15_Witness ==
    /\ pc = "pace"
    /\ calls["poll"].success
    /\ calls["disable"].issued
    /\ ~calls["disable"].success
    /\ username \in Range(forked)
    /\ outcome[fork_repo_path] = "success"

\* C16: on the sync path the default-branch query comes first, the workflow-disable
\* request second and the merge request third, the merge being requested whatever
\* the first two returned, on the branch the query gave or on main; the account is
\* a success when the merge succeeded or failed with the up-to-date text, and a
\* failure otherwise.
C16_SyncOrderAndResult ==
    /\ pc = "sync_branch" =>
           (~calls["branch"].issued /\ ~calls["disable"].issued /\ ~calls["merge"].issued)
    /\ pc = "sync_disable" =>
           (calls["branch"].issued /\ ~calls["disable"].issued /\ ~calls["merge"].issued)
    /\ pc = "sync_merge" =>
           (calls["branch"].issued /\ calls["disable"].issued /\ ~calls["merge"].issued)
    /\ (calls["branch"].issued /\ AccountDone) => calls["merge"].issued
    /\ calls["merge"].issued =>
           /\ AccountDone
           /\ calls["branch"].issued /\ calls["disable"].issued
           /\ ~calls["create"].issued
           /\ calls["merge"].arg =
                  (IF calls["branch"].success /\ calls["branch"].output = "master\n"
                   THEN "master" ELSE "main")
           /\ outcome[PathOf(LastIndex)] =
                  (IF calls["merge"].success \/ calls["merge"].error = ErrUpToDate
                   THEN "success" ELSE "failed")

\* the default-branch query and the workflow-disable request both failed and the
\* merge, requested on main, reported the branch up to date: a success
C16_Witness ==
    /\ pc = "pace"
    /\ calls["branch"].issued /\ ~calls["branch"].success
    /\ calls["disable"].issued /\ ~calls["disable"].success
    /\ calls["merge"].arg = "main"
    /\ calls["merge"].error = ErrUpToDate
    /\ outcome[fork_repo_path] = "success"

\* the current account is past its existence check
PastExists == pc \in {"delete", "deleting", "cnf_stale", "cnf_post", "poll", "cnf_disable",
                      "pace"}

\* C17: in destructive mode every account gets an existence check; a deletion is
\* requested when the check succeeded, whatever the parentage probe returned, and
\* only then; after a failed check the account goes to the creation request with
\* no deletion request.
C17_DeleteIffExists ==
    action = "2" =>
        /\ \A k \in 1..Len(users_to_process) :
               (k <= LastIndex /\ (k < i \/ PastExists)) => "exists" \in issued[PathOf(k)]
        /\ pc = "exists" => (calls["parent"].issued /\ ~calls["exists"].issued)
        /\ pc = "delete" => (calls["exists"].success /\ ~calls["delete"].issued)
        /\ calls["delete"].issued => calls["exists"].success
        /\ (calls["exists"].success /\ pc # "delete") => calls["delete"].issued
        /\ (calls["exists"].issued /\ ~calls["exists"].success) =>
               /\ ~calls["delete"].issued
               /\ "delete" \notin issued[PathOf(LastIndex)]
               /\ pc \in {"cnf_stale", "cnf_post", "poll", "cnf_disable", "pace", "probe",
                          "done"}
               /\ AccountDone => calls["create"].issued

\* a repository that is not a fork of the upstream exists at the target path: the
\* probe said so, the existence check succeeded and the deletion was requested
C17_Witness ==
    /\ action = "2"
    /\ pc = "deleting"
    /\ calls["parent"].success
    /\ calls["parent"].output = ParentOutput("other")
    /\ calls["exists"].success
    /\ calls["delete"].issued

\* the poll of the account whose results calls holds ended without a success
PollGaveUp == calls["poll"].issued /\ ~calls["poll"].success /\ pc # "poll"

\* C18: when the poll ends without a successful probe the account's processing is
\* over: it is counted as failed, no workflow-disable request was made, it is not
\* in the forked checklist (its entry, if it had one, was removed before the
\* creation request), and the only step left for it is the move to the next
\* account, which issues no request for it; this still holds when the batch is
\* over.
C18_StateInv ==
    /\ PollGaveUp =>
           /\ AccountDone
           /\ outcome[PathOf(LastIndex)] = "failed"
           /\ ~calls["disable"].issued
           /\ LastUser \notin Range(forked)
    /\ pc # "start" => Len(users_to_process) = Cardinality(Range(users_to_process))
    /\ \A k \in 1..Len(users_to_process) :
           (k <= LastIndex /\ "poll" \in issued[PathOf(k)]
                /\ outcome[PathOf(k)] = "failed") =>
               /\ "disable" \notin issued[PathOf(k)]
               /\ users_to_process[k] \notin Range(forked)

C18_Step ==
    (pc = "pace" /\ PollGaveUp) =>
        /\ pc' \in {"probe", "done"}
        /\ i' = i + 1
        /\ calls' = calls /\ issued' = issued /\ forked' = forked
        /\ outcome' = outcome /\ failed_count' = failed_count

C18_TimeoutIsTerminal == []C18_StateInv /\ [][C18_Step]_vars

\* the account was in the checklist at the start; its poll timed out and the batch
\* is over with the account failed and out of the checklist
C18_Witness ==
    /\ pc = "done"
    /\ PollGaveUp
    /\ stale_removed
    /\ outcome[PathOf(LastIndex)] = "failed"
    /\ LastUser \notin Range(forked)

\* C19: in non-destructive mode no deletion request is issued on any path, the
\* batch is never at the existence check or at the deletion, and no repository
\* that the run has seen present is absent afterwards.
C19_NoDeleteInSyncMode ==
    action = "1" =>
        /\ \A p \in Paths : "delete" \notin issued[p] /\ "exists" \notin issued[p]
        /\ ~calls["delete"].issued
        /\ pc \notin {"confirm", "aborted", "exists", "delete", "deleting"}
        /\ \A p \in Paths :
               (calls["parent"].success /\ p = PathOf(LastIndex)) => Exists(remote[p])

\* a repository that is not a fork of the upstream is at the account's path; in
\* non-destructive mode the creation request is sent with the repository in place
C19_Witness ==
    /\ action = "1"
    /\ pc = "poll"
    /\ calls["parent"].output = ParentOutput("other")
    /\ remote[fork_repo_path] = "other"
    /\ calls["create"].issued
    /\ ~calls["delete"].issued

(***************************************************************************)
(* The invitation-accept flow: invoke_auto_accept.                         *)
(***************************************************************************)
\* line 98: target_repo = f"{main_account_username}/{main_repo_name}".lower()
target_repo == Lower(source_repo)

\* JSON values: a key that is absent, the value null
NoKey == "<no key>"
JsonNull == "<null>"

\* one invitation object: its id and the full_name of its repository object
Inv(id, repository) == [id |-> id, repository |-> repository]

PayloadEmpty == ""
PayloadHtml == "<html>502 Bad Gateway</html>"
PayloadNone == "[]"
PayloadInvited == "[{\"id\": 7, \"repository\": {\"full_name\": \"Main/Repo\"}}]"
PayloadOther == "[{\"id\": 5, \"repository\": {\"full_name\": \"carol/other\"}}]"
PayloadSecond == "[{\"id\": 5, \"repository\": {\"full_name\": \"carol/other\"}}, "
                 \o "{\"id\": 7, \"repository\": {\"full_name\": \"main/repo\"}}]"
PayloadNoRepository == "[{\"id\": 7}]"
PayloadNoId == "[{\"repository\": {\"full_name\": \"main/repo\"}}]"
PayloadNullRepository == "[{\"id\": 7, \"repository\": null}]"
PayloadObject == "{\"message\": \"Bad credentials\"}"
PayloadNull == "null"

Payloads == {PayloadEmpty, PayloadHtml, PayloadNone, PayloadInvited, PayloadOther,
             PayloadSecond, PayloadNoRepository, PayloadNoId, PayloadNullRepository,
             PayloadObject, PayloadNull}

JsonValue(type, items) == [type |-> type, items |-> items]

\* line 119: json.loads(result["output"]); type "error" is JSONDecodeError
JsonLoads(payload) ==
    CASE payload = PayloadNone -> JsonValue("list", <<>>)
      [] payload = PayloadInvited -> JsonValue("list", <<Inv("7", "Main/Repo")>>)
      [] payload = PayloadOther -> JsonValue("list", <<Inv("5", "carol/other")>>)
      [] payload = PayloadSecond ->
             JsonValue("list", <<Inv("5", "carol/other"), Inv("7", "main/repo")>>)
      [] payload = PayloadNoRepository -> JsonValue("list", <<Inv("7", NoKey)>>)
      [] payload = PayloadNoId -> JsonValue("list", <<Inv(NoKey, "main/repo")>>)
      [] payload = PayloadNullRepository -> JsonValue("list", <<Inv("7", JsonNull)>>)
      [] payload = PayloadObject -> JsonValue("object", <<>>)
      [] payload = PayloadNull -> JsonValue("null", <<>>)
      [] OTHER -> JsonValue("error", <<>>)

Found(inv_id) == [raised |-> "", inv_id |-> inv_id]
Raised(exception) == [raised |-> exception, inv_id |-> ""]

\* lines 120-123: next((inv['id'] for inv in invitations if
\* inv.get('repository', {}).get('full_name', '').lower() == target_repo), None)
RECURSIVE NextInvId(_)
NextInvId(invitations) ==
    IF invitations = <<>> THEN Found("")
    ELSE LET inv == Head(invitations)
             full_name == IF inv.repository = NoKey THEN "" ELSE inv.repository
         IN  IF inv.repository = JsonNull THEN Raised("AttributeError")
             ELSE IF Lower(full_name) = target_repo
             THEN IF inv.id = NoKey THEN Raised("KeyError") ELSE Found(inv.id)
             ELSE NextInvId(Tail(invitations))

\* lines 118-123 on the payload of a successful listing
FindInvitation(payload) ==
    LET value == JsonLoads(payload)
    IN  CASE value.type = "error" -> Raised("JSONDecodeError")
          [] value.type = "null" -> Raised("TypeError")
          [] value.type = "object" -> Raised("AttributeError")
          [] OTHER -> NextInvId(value.items)

\* line 138: except (json.JSONDecodeError, KeyError)
Caught == {"JSONDecodeError", "KeyError"}

\* run_gh_api on user/repository_invitations and on the PATCH of an invitation
ListResults == {Fail(ErrNet, "")} \cup {Ok(payload, "") : payload \in Payloads}
AcceptResults(inv_id) == {Ok("", inv_id), Fail(ErrNotFound, inv_id)}

InitAccept ==
    /\ pc = "acc_start"
    /\ token_cache \in Caches
    /\ accepted \in NoDupSeqs(Collaborators)
    /\ accepted_users = <<>>
    /\ accepted_count = 0
    /\ skipped_count = 0
    /\ no_invite_count = 0
    /\ accepts = [u \in Users |-> 0]
    /\ i = 0
    /\ success_count = 0
    /\ failed_count = 0
    /\ gap = 0
    /\ InitIdleFork
    /\ InitIdleInvite
    /\ InitIdleClassify

idleInAccept == <<token_cache, users_to_process, action, confirm, success_count,
                  failed_count, forked, invited, users_to_invite, remote, issued,
                  stale_removed, flaky, outcome, elapsed, invites, run, invite_result, op,
                  text, verdict>>

\* line 106: the entry of the token cache the loop is at
accept_username == token_cache[i]

\* the end of one pass of the for loop of line 106
NextEntry ==
    /\ i' = i + 1
    /\ pc' = IF i + 1 > Len(token_cache) THEN "acc_report" ELSE "acc_loop"

\* lines 88-104: the files are read, the counters start at zero
LoadAccept ==
    /\ pc = "acc_start"
    /\ IF token_cache = <<>>
       THEN /\ pc' = "acc_nofiles"
            /\ UNCHANGED <<accepted_users, i>>
       ELSE /\ pc' = "acc_loop"
            /\ accepted_users' = accepted
            /\ i' = 1
    /\ UNCHANGED <<accepted, accepted_count, skipped_count, no_invite_count, accepts,
                   calls, gap>>
    /\ UNCHANGED idleInAccept

\* lines 107-110: an account of the accepted checklist is skipped
AcceptSkip ==
    /\ pc = "acc_loop"
    /\ accept_username \in Range(accepted_users)
    /\ skipped_count' = skipped_count + 1
    /\ NextEntry
    /\ UNCHANGED <<accepted, accepted_users, accepted_count, no_invite_count, accepts,
                   calls, gap>>
    /\ UNCHANGED idleInAccept

\* lines 112-125 and 135-141: the invitations are listed and the payload is
\* searched for an invitation to target_repo
ListInvitations ==
    /\ pc = "acc_loop"
    /\ accept_username \notin Range(accepted_users)
    /\ \E r \in ListResults :
          /\ calls' = [calls EXCEPT !["invitations"] = r, !["accept"] = NoCall]
          /\ IF ~r.success
             THEN /\ NextEntry
                  /\ gap' = 0
                  /\ UNCHANGED no_invite_count
             ELSE LET found == FindInvitation(r.output)
                  IN  IF found.raised # ""
                      THEN IF found.raised \in Caught
                           THEN /\ NextEntry
                                /\ gap' = 1
                                /\ UNCHANGED no_invite_count
                           ELSE /\ pc' = "acc_raised"
                                /\ UNCHANGED <<i, gap, no_invite_count>>
                      ELSE IF found.inv_id # ""
                      THEN /\ pc' = "acc_accept"
                           /\ UNCHANGED <<i, gap, no_invite_count>>
                      ELSE /\ no_invite_count' = no_invite_count + 1
                           /\ NextEntry
                           /\ gap' = 1
    /\ UNCHANGED <<accepted, accepted_users, accepted_count, skipped_count, accepts>>
    /\ UNCHANGED idleInAccept

\* lines 126-133 and 141: the accept request of the invitation found
AcceptInvitation ==
    /\ pc = "acc_accept"
    /\ LET inv_id == FindInvitation(calls["invitations"].output).inv_id
       IN  \E r \in AcceptResults(inv_id) :
              /\ calls' = [calls EXCEPT !["accept"] = r]
              /\ accepts' = [accepts EXCEPT ![accept_username] = @ + 1]
              /\ IF r.success
                 THEN /\ accepted' = AppendToFile(accepted, accept_username)
                      /\ accepted_count' = accepted_count + 1
                 ELSE UNCHANGED <<accepted, accepted_count>>
    /\ NextEntry
    /\ gap' = 1
    /\ UNCHANGED <<accepted_users, skipped_count, no_invite_count>>
    /\ UNCHANGED idleInAccept

NextAccept ==
    \/ LoadAccept
    \/ AcceptSkip
    \/ ListInvitations
    \/ AcceptInvitation

SpecAccept == InitAccept /\ [][NextAccept]_vars

\* the payloads that are not a JSON list of invitation objects, each with an id and
\* a repository object
MalformedPayloads == {PayloadEmpty, PayloadHtml, PayloadNoRepository, PayloadNoId,
                      PayloadNullRepository, PayloadObject, PayloadNull}

\* C20 as stated: a listing that succeeds with a malformed payload counts the
\* account as without invitation, sends no accept request, leaves the accepted
\* checklist as it is and goes on to the next account; and an account enters the
\* accepted checklist only in a step in which its accept request succeeded.
C20_MalformedIsNoInvitation ==
    [][/\ (/\ pc = "acc_loop"
           /\ accept_username \notin Range(accepted_users)
           /\ calls'["invitations"].success
           /\ calls'["invitations"].output \in MalformedPayloads) =>
              /\ no_invite_count' = no_invite_count + 1
              /\ accepts' = accepts
              /\ accepted' = accepted
              /\ i' = i + 1
              /\ pc' \in {"acc_loop", "acc_report"}
       /\ \A u \in Users :
              (u \in Range(accepted') /\ u \notin Range(accepted)) =>
                  /\ pc = "acc_accept"
                  /\ u = accept_username
                  /\ calls'["accept"].success]_vars

====
